---- MODULE Spec2Model ----
(***************************************************************************)
(* NonSTL containers: non_stl::vector<T, Alloc> (the growable array) and   *)
(* non_stl::circular_buffer<T, N> (the ring buffer), modelled from          *)
(* src/NonSTL/containers/vector.h.  Element type T is int, as in the tests. *)
(***************************************************************************)
EXTENDS Integers, Sequences, FiniteSets, TLC

VARIABLES
    vec,      \* vector: the two vector objects a and b (fields below)
    vlast,    \* the observed vector call, if one was observed: op and arguments
    vpre,     \* the vector objects when the observed call was made
    budget,   \* vector calls left in this run
    N,        \* circular_buffer: template parameter N (BUFFER_SIZE)
    rb,       \* circular_buffer: d_container, d_head, d_tail, d_size
    fifo,     \* reference bounded FIFO driven by the same calls
    pushes,   \* number of push_back / emplace_back calls made so far
    ordinal,  \* every push so far pushed its own ordinal and nothing was popped
    rlast,    \* the last circular_buffer call: [op, val]
    rpre,     \* the circular_buffer fields when that call was made
    rb2       \* a second circular_buffer object, the destination of copies

vvars == <<vec, vlast, vpre, budget>>

rvars == <<N, rb, fifo, pushes, ordinal, rlast, rpre, rb2>>

vars == <<vec, vlast, vpre, budget, N, rb, fifo, pushes, ordinal, rlast, rpre, rb2>>

\* ------------------------------------------------------------------
\* Bounds of the model
\* ------------------------------------------------------------------
MaxN == 5        \* largest ring capacity N explored
MaxPush == 11    \* pushes per ring run
MaxVal == 2      \* repeated element values are 1..MaxVal

\* T() for T = int
DefaultT == 0

SmallValues == 1..MaxVal

MaxLen == 2      \* largest vector size() and largest count argument explored
MaxOps == 2      \* calls in a run on two vector objects
WordBits == 16   \* bits of size_type in the model (64 in the code; every
                 \* count of the model is far below 2^WordBits, so only an
                 \* unsigned underflow wraps, as in the code)

\* ------------------------------------------------------------------
\* vector<T, Alloc>: storage
\* ------------------------------------------------------------------
\* A vector object is a record
\*   _capacity, _size : the members of that name
\*   alloc            : the number of slots of the block _data points to
\*   mem              : the block's slots 0..alloc-1
\*   isnull           : _data == nullptr
\*   oob              : a slot outside the block has been read or written
\*   badfree          : deallocate was passed a count other than the block's
\* Record constructors list the fields in the order of their first appearance
\* in this module, the order TLC keeps records in.
Vecs == {"a", "b"}

Other(v) == IF v = "a" THEN "b" ELSE "a"

\* The content of a slot that was allocated and never written.
Uninit == -1

\* Coefficient for expanding the capacity: const double beta = 2.0
beta == 2

default_capacity == 10

SizeMod == 2 ^ WordBits

\* size_type arithmetic is unsigned
Wrap(x) == x % SizeMod

\* the element values used as arguments
Elems == {1, 2}

InBlock(o, i) == i >= 0 /\ i < o.alloc

\* *(_data + i): a slot outside the block holds no value of this vector
Load(o, i) == IF InBlock(o, i) THEN o.mem[i] ELSE Uninit

\* _alloc.construct(_data + i, x) / _data[i] = x
Store(o, i, x) ==
    IF InBlock(o, i) THEN [o EXCEPT !.mem[i] = x] ELSE [o EXCEPT !.oob = TRUE]

\* _alloc.allocate(n): n slots of uninitialised storage
allocate(n) == [i \in 0..(n - 1) |-> Uninit]

\* for (i = lo; i < hi; ++i) _alloc.construct(_data + i, x)
construct_range(o, lo, hi, x) ==
    [o EXCEPT !.mem = [i \in 0..(o.alloc - 1) |->
                          IF lo <= i /\ i < hi THEN x ELSE o.mem[i]],
              !.oob = o.oob \/ (lo < hi /\ (hi > o.alloc \/ lo < 0))]

\* for (j = 0; j < n; ++j) _data[j] = *(src._data + from + step * j)
copy_in(o, n, src, from, step) ==
    [o EXCEPT !.mem = [i \in 0..(o.alloc - 1) |->
                          IF i < n THEN Load(src, from + step * i) ELSE o.mem[i]],
              !.oob = \/ o.oob
                      \/ n > o.alloc
                      \/ \E j \in 0..(n - 1) : ~InBlock(src, from + step * j)]

NewVector(cap, sz, n) ==
    [alloc |-> n, mem |-> allocate(n), oob |-> FALSE,
     _capacity |-> cap, _size |-> sz, isnull |-> FALSE, badfree |-> FALSE]

\* the state a move leaves its source in
MovedFrom ==
    [alloc |-> 0, mem |-> allocate(0), oob |-> FALSE,
     _capacity |-> 0, _size |-> 0, isnull |-> TRUE, badfree |-> FALSE]

\* ------------------------------------------------------------------
\* vector<T, Alloc>: constructors
\* ------------------------------------------------------------------
\* vector(): _capacity(10), _size(0), _data(_alloc.allocate(_capacity))
vector_default == NewVector(default_capacity, 0, default_capacity)

\* vector(size_type size): _capacity(beta * size), _data(_alloc.allocate(size))
vector_fill(n) == construct_range(NewVector(beta * n, n, n), 0, n, DefaultT)

\* vector(size_type size, const T& val)
vector_fill_val(n, val) ==
    construct_range(NewVector(beta * n, n, beta * n), 0, n, val)

\* copy_from_initializer_list(init)
copy_from_initializer_list(o, init) ==
    [o EXCEPT !.mem = [i \in 0..(o.alloc - 1) |->
                          IF i < Len(init) THEN init[i + 1] ELSE o.mem[i]],
              !.oob = o.oob \/ Len(init) > o.alloc]

\* vector(std::initializer_list<T> init)
vector_list(init) ==
    copy_from_initializer_list(
        NewVector(beta * Len(init), Len(init), beta * Len(init)), init)

\* vector(const vector& rhs): _data(_alloc.allocate(_size)), std::copy_n
vector_copy(rhs) ==
    copy_in(NewVector(rhs._capacity, rhs._size, rhs._size), rhs._size, rhs, 0, 1)

\* a move constructor that allocated and copied instead of taking the members
vector_move_copying(rhs) == vector_copy(rhs)

\* vector(vector&& rhs): takes rhs's members
vector_move(rhs) == rhs

\* vector(InputIterator first, InputIterator last), iterator branch, with
\* n the result of get_iterator_diff and the range starting at slot from of src
vector_range(n, src, from, step) ==
    copy_in(NewVector(beta * n, n, beta * n), n, src, from, step)

\* ------------------------------------------------------------------
\* vector<T, Alloc>: private functions
\* ------------------------------------------------------------------
\* reallocate(cap): allocate, copy_n(_data, _size, cp), deallocate(_data, _capacity)
reallocate(o, cap) ==
    [alloc |-> cap,
     mem |-> [i \in 0..(cap - 1) |-> IF i < o._size THEN Load(o, i) ELSE Uninit],
     oob |-> o.oob \/ o._size > o.alloc \/ o._size > cap,
     _capacity |-> cap,
     _size |-> o._size,
     isnull |-> FALSE,
     badfree |-> o.badfree \/ o._capacity # o.alloc]

\* pop_back(): _data[_size - 1].~T(); --_size
pop_back(o) == [o EXCEPT !._size = o._size - 1]

RECURSIVE pop_back_n(_, _)
pop_back_n(o, n) == IF n = 0 THEN o ELSE pop_back_n(pop_back(o), n - 1)

\* C38 mutant: a loop that stops before the slot at idx
RECURSIVE shift_loop_above_idx(_, _, _, _, _, _)
shift_loop_above_idx(o, copy_to, copy_from, idx, complete, copies) ==
    IF copy_from > idx /\ ~complete
    THEN LET o1 == Store(o, copy_to, Load(o, copy_from))
         IN shift_loop_above_idx(o1, Wrap(copy_to - 1), Wrap(copy_from - 1),
                                 idx, copy_from = 0, copies + 1)
    ELSE [o |-> o, copies |-> copies]

\* The loop of shift_array: one iteration copies _data[copy_from] to
\* _data[copy_to]; copies counts the iterations.
RECURSIVE shift_loop(_, _, _, _, _, _)
shift_loop(o, copy_to, copy_from, idx, complete, copies) ==
    IF copy_from >= idx /\ ~complete
    THEN LET o1 == Store(o, copy_to, Load(o, copy_from))
             o2 == [o1 EXCEPT !.oob = o1.oob \/ ~InBlock(o, copy_from)]
         IN shift_loop(o2, Wrap(copy_to - 1), Wrap(copy_from - 1), idx,
                       copy_from = 0, copies + 1)
    ELSE [o |-> o, copies |-> copies]

\* the number of iterations the loop of shift_array(n, idx) makes on o
shift_array_copies(o, n, idx) ==
    shift_loop(o, o._size + n, o._size, idx, FALSE, 0).copies

\* shift_array(n, idx)
shift_array(o, n, idx) ==
    LET r == shift_loop(o, o._size + n, o._size, idx, FALSE, 0).o
    IN [r EXCEPT !._size = o._size + n]

\* ------------------------------------------------------------------
\* vector<T, Alloc>: element access and capacity
\* ------------------------------------------------------------------
size(o) == o._size

capacity(o) == o._capacity

empty(o) == size(o) = 0

\* operator[](n): return _data[n]
index(o, n) == [threw |-> FALSE, slot |-> n]

\* at(n): if (n >= _size) { /* throw out of range exception */ } return _data[n]
at(o, n) == [threw |-> FALSE, slot |-> n]

\* resize(n)
resize(o, n) ==
    IF n < o._size THEN pop_back_n(o, o._size - n)
    ELSE IF n <= o._capacity THEN [o EXCEPT !._size = n]
    ELSE [reallocate(o, n) EXCEPT !._size = n]

\* a resize(n, val) that stores val in the first slot it gives up
resize_val_marking(o, n, val) ==
    LET old_size == o._size
        o1 == resize(o, n)
    IN IF n >= old_size
       THEN construct_range(o1, Wrap(old_size - 1), o1._size, val)
       ELSE Store(o1, n, val)

\* resize(n, val)
resize_val(o, n, val) ==
    LET old_size == o._size
        o1 == resize(o, n)
    IN IF n >= old_size
       THEN construct_range(o1, Wrap(old_size - 1), o1._size, val)
       ELSE o1

\* a reserve that grows by the growth factor
reserve_scaled(o, n) == IF n <= o._capacity THEN o ELSE reallocate(o, beta * n)

\* reserve(n)
reserve(o, n) == IF n <= o._capacity THEN o ELSE reallocate(o, n)

\* a shrink_to_fit that allocates the smaller block without copying into it
shrink_to_fit_fresh(o) ==
    IF o._capacity > o._size THEN NewVector(o._size, o._size, o._size) ELSE o

\* shrink_to_fit()
shrink_to_fit(o) == IF o._capacity > o._size THEN reallocate(o, o._size) ELSE o

\* ------------------------------------------------------------------
\* vector<T, Alloc>: modifiers
\* ------------------------------------------------------------------
\* a clear that gives the storage block back
clear_releasing(o) == MovedFrom

\* clear()
clear(o) == [o EXCEPT !._size = 0]

\* assign(size_type n, const T& val)
assign_fill(o, n, val) ==
    LET o1 == clear(o)
        o2 == IF n >= o1._capacity THEN reallocate(o1, beta * n) ELSE o1
    IN construct_range([o2 EXCEPT !._size = n], 0, n, val)

\* assign(std::initializer_list<T> il)
assign_list(o, il) ==
    LET n == Len(il)
        o1 == clear(o)
        o2 == IF n >= o1._capacity THEN reallocate(o1, beta * n) ELSE o1
    IN copy_from_initializer_list([o2 EXCEPT !._size = n], il)

\* assign(InputIterator first, InputIterator last), iterator branch, with n
\* the result of get_iterator_diff
assign_range(o, n, src, from, step) ==
    LET o1 == clear(o)
        o2 == IF n >= o1._capacity THEN reallocate(o1, beta * n) ELSE o1
    IN copy_in([o2 EXCEPT !._size = n], n, src, from, step)

\* push_back(const T& val), push_back(T&& val)
push_back(o, val) ==
    LET o1 == IF o._size = o._capacity
              THEN reallocate(o, beta * o._capacity) ELSE o
    IN [Store(o1, o1._size, val) EXCEPT !._size = o1._size + 1]

\* emplace_back(Args&&... args)
emplace_back(o, val) ==
    LET o1 == IF o._size = o._capacity
              THEN reallocate(o, beta * o._capacity) ELSE o
    IN [Store(o1, o1._size, val) EXCEPT !._size = o1._size + 1]

\* insert(iterator position, const T& val), insert(iterator position, T&& val)
\* with idx = &(*position) - _data
insert(o, idx, val) ==
    LET o1 == IF o._size = o._capacity
              THEN reallocate(o, beta * o._capacity) ELSE o
    IN Store(shift_array(o1, 1, idx), idx, val)

\* The copy loop of the range insert:
\* for (i = idx; i < old_size; ++i) { _data[i] = *it; ++it; }
RECURSIVE insert_copy(_, _, _, _, _, _)
insert_copy(o, i, old_size, src, from, step) ==
    IF i < old_size
    THEN LET o1 == Store(o, i, Load(src, from))
             o2 == [o1 EXCEPT !.oob = o1.oob \/ ~InBlock(src, from)]
         IN insert_copy(o2, i + 1, old_size, src, from + step, step)
    ELSE o

\* insert(iterator position, InputIterator first, InputIterator last), with
\* n the result of get_iterator_diff
insert_range(o, idx, n, src, from, step) ==
    LET old_size == o._size
        o1 == IF o._size + n >= o._capacity
              THEN reallocate(o, beta * (o._size + n)) ELSE o
    IN insert_copy(shift_array(o1, n, idx), idx, old_size, src, from, step)

\* ------------------------------------------------------------------
\* vector<T, Alloc>: iterators
\* ------------------------------------------------------------------
\* An iterator is parent_iterator's members _curr (as a slot number of the
\* vector it was taken from, -1 for &_data[-1]), _size and _idx, and whether
\* it is a reverse iterator.
Iter(curr, sz, rev) ==
    [_size |-> sz, _curr |-> curr, _idx |-> Wrap(curr), rev |-> rev]

begin(o) == Iter(0, o._size, FALSE)

end(o) == Iter(o._size, o._size, FALSE)

\* reverse_iterator(&_data[_size - 1], -1, _size - 1)
rbegin(o) == Iter(o._size - 1, Wrap(0 - 1), TRUE)

\* reverse_iterator(&_data[-1], -1, -1)
rend(o) == Iter(0 - 1, Wrap(0 - 1), TRUE)

\* the direction operator++ moves _curr in
it_step(it) == IF it.rev THEN 0 - 1 ELSE 1

\* operator++
it_inc(it) == Iter(it._curr + it_step(it), it._size, it.rev)

RECURSIVE it_advance(_, _)
it_advance(it, k) == IF k = 0 THEN it ELSE it_advance(it_inc(it), k - 1)

\* operator--
it_dec(it) == Iter(it._curr - it_step(it), it._size, it.rev)

RECURSIVE it_retreat(_, _)
it_retreat(it, k) == IF k = 0 THEN it ELSE it_retreat(it_dec(it), k - 1)

\* get_iterator(n): diff = _size - n; end() decremented diff times when
\* diff < n, begin() incremented n times otherwise
get_iterator(o, n) ==
    LET diff == Wrap(o._size - n)
    IN IF diff < n THEN it_retreat(end(o), diff) ELSE it_advance(begin(o), n)

isEnd(it) == it._size = it._idx

\* parent_iterator::operator==:
\*   (isEnd() && rhs.isEnd()) || (*_curr == *rhs._curr)
\* as the set of results the comparison can have: comparing a slot that holds
\* no written value with another slot can go either way.
it_eq(src, it, rhs) ==
    IF isEnd(it) /\ isEnd(rhs) THEN {TRUE}
    ELSE IF it._curr = rhs._curr THEN {TRUE}
    ELSE IF Load(src, it._curr) = Uninit \/ Load(src, rhs._curr) = Uninit
         THEN {TRUE, FALSE}
    ELSE {Load(src, it._curr) = Load(src, rhs._curr)}

\* get_iterator_diff(first, last): for (it = first; it != last; it++) ++ret,
\* as the set of counts the loop can return
RECURSIVE diff_loop(_, _, _, _)
diff_loop(src, it, last, ret) ==
    LET eq == it_eq(src, it, last)
    IN (IF TRUE \in eq THEN {ret} ELSE {})
       \cup (IF FALSE \in eq
             THEN diff_loop(src, it_inc(it), last, ret + 1) ELSE {})

get_iterator_diff(src, first, last) == diff_loop(src, first, last, 0)

\* ------------------------------------------------------------------
\* vector<T, Alloc>: the calls
\* ------------------------------------------------------------------
Counts == 0..MaxLen

\* the initializer lists and element lists used as arguments
Lists == UNION {[1..k -> Elems] : k \in 0..MaxLen}

Call(op, v, n, val, idx, f, l) ==
    [v |-> v, n |-> n, val |-> val, idx |-> idx, threw |-> FALSE, il |-> <<>>,
     op |-> op, f |-> f, l |-> l]

NoCall == Call("none", "a", 0, 0, 0, 0, 0)

\* One call is observed: its arguments and the objects before it are kept,
\* and the run ends there.
Observe(c) ==
    \/ /\ vlast' = c
       /\ vpre' = vec
    \/ UNCHANGED <<vlast, vpre>>

\* the budget of a run that may go on for any number of calls
Unlimited == MaxOps + 1

\* One call is taken from the budget.
Spend ==
    /\ budget > 0
    /\ budget' = IF budget = Unlimited THEN budget ELSE budget - 1

\* No call was observed yet and the budget allows one more.
Ready == vlast = NoCall /\ budget > 0

\* A call on object v that leaves the other object alone.
VecStep(v, o2, c) ==
    /\ Spend
    /\ vec' = [vec EXCEPT ![v] = o2]
    /\ Observe(c)
    /\ UNCHANGED rvars

CtorDefault(v) ==
    /\ Ready
    /\ VecStep(v, vector_default, Call("vector()", v, 0, 0, 0, 0, 0))

CtorFill(v) ==
    /\ Ready
    /\ \E n \in Counts :
           VecStep(v, vector_fill(n), Call("vector(n)", v, n, 0, 0, 0, 0))

CtorFillVal(v) ==
    /\ Ready
    /\ \E n \in Counts, val \in Elems :
           VecStep(v, vector_fill_val(n, val),
                   Call("vector(n,val)", v, n, val, 0, 0, 0))

CtorList(v) ==
    /\ Ready
    /\ \E il \in Lists :
           VecStep(v, vector_list(il),
                   [Call("vector(il)", v, Len(il), 0, 0, 0, 0) EXCEPT !.il = il])

\* vector(first, last) with first = begin() + f and last = begin() + l of the
\* other object
CtorRange(v) ==
    /\ Ready
    /\ LET src == vec[Other(v)]
       IN \E f \in 0..src._size :
          \E l \in f..src._size :
          \E n \in get_iterator_diff(src, it_advance(begin(src), f),
                                     it_advance(begin(src), l)) :
              VecStep(v, vector_range(n, src, f, 1),
                      Call("vector(first,last)", v, n, 0, 0, f, l))

CtorCopy(v) ==
    /\ Ready
    /\ VecStep(v, vector_copy(vec[Other(v)]),
               Call("vector(copy)", v, 0, 0, 0, 0, 0))

\* vector(vector&& rhs): rhs is left with _capacity 0, _size 0, _data nullptr
CtorMove(v) ==
    /\ Ready
    /\ Spend
    /\ vec' = [vec EXCEPT ![v] = vector_move(vec[Other(v)]),
                          ![Other(v)] = MovedFrom]
    /\ Observe(Call("vector(move)", v, 0, 0, 0, 0, 0))
    /\ UNCHANGED rvars

VecPushBack(v) ==
    /\ Ready
    /\ vec[v]._size < MaxLen
    /\ \E val \in Elems :
           VecStep(v, push_back(vec[v], val),
                   Call("push_back", v, 0, val, 0, 0, 0))

VecEmplaceBack(v) ==
    /\ Ready
    /\ vec[v]._size < MaxLen
    /\ \E val \in Elems :
           VecStep(v, emplace_back(vec[v], val),
                   Call("emplace_back", v, 0, val, 0, 0, 0))

\* pop_back() is called on a non-empty vector only
VecPopBack(v) ==
    /\ Ready
    /\ vec[v]._size > 0
    /\ VecStep(v, pop_back(vec[v]), Call("pop_back", v, 0, 0, 0, 0, 0))

\* insert(position, val) with position = begin() + idx, idx in [0, size()]
VecInsert(v) ==
    /\ Ready
    /\ vec[v]._size < MaxLen
    /\ \E idx \in 0..vec[v]._size, val \in Elems :
           VecStep(v, insert(vec[v], idx, val),
                   Call("insert", v, 0, val, idx, 0, 0))

\* insert(position, first, last) with position = begin() + idx and
\* [first, last) = [begin() + f, begin() + l) of the other object
VecInsertRange(v) ==
    /\ Ready
    /\ LET src == vec[Other(v)]
       IN \E idx \in 0..vec[v]._size :
          \E f \in 0..src._size :
          \E l \in f..src._size :
          \E n \in get_iterator_diff(src, it_advance(begin(src), f),
                                     it_advance(begin(src), l)) :
              /\ vec[v]._size + (l - f) <= MaxLen
              /\ VecStep(v, insert_range(vec[v], idx, n, src, f, 1),
                         Call("insert(first,last)", v, n, 0, idx, f, l))

VecAssignFill(v) ==
    /\ Ready
    /\ \E n \in Counts, val \in Elems :
           VecStep(v, assign_fill(vec[v], n, val),
                   Call("assign(n,val)", v, n, val, 0, 0, 0))

VecAssignList(v) ==
    /\ Ready
    /\ \E il \in Lists :
           VecStep(v, assign_list(vec[v], il),
                   [Call("assign(il)", v, Len(il), 0, 0, 0, 0) EXCEPT !.il = il])

VecAssignRange(v) ==
    /\ Ready
    /\ LET src == vec[Other(v)]
       IN \E f \in 0..src._size :
          \E l \in f..src._size :
          \E n \in get_iterator_diff(src, it_advance(begin(src), f),
                                     it_advance(begin(src), l)) :
              VecStep(v, assign_range(vec[v], n, src, f, 1),
                      Call("assign(first,last)", v, n, 0, 0, f, l))

VecResize(v) ==
    /\ Ready
    /\ \E n \in Counts :
           VecStep(v, resize(vec[v], n), Call("resize(n)", v, n, 0, 0, 0, 0))

VecResizeVal(v) ==
    /\ Ready
    /\ \E n \in Counts, val \in Elems :
           VecStep(v, resize_val(vec[v], n, val),
                   Call("resize(n,val)", v, n, val, 0, 0, 0))

VecReserve(v) ==
    /\ Ready
    /\ \E n \in 0..(MaxLen + 1) :
           VecStep(v, reserve(vec[v], n), Call("reserve", v, n, 0, 0, 0, 0))

VecShrinkToFit(v) ==
    /\ Ready
    /\ VecStep(v, shrink_to_fit(vec[v]), Call("shrink_to_fit", v, 0, 0, 0, 0, 0))

VecClear(v) ==
    /\ Ready
    /\ VecStep(v, clear(vec[v]), Call("clear", v, 0, 0, 0, 0, 0))

\* a swap that leaves _size where it was
vector_swap_keepsize(vs, v) ==
    [vs EXCEPT ![v] = [vs[Other(v)] EXCEPT !._size = vs[v]._size],
               ![Other(v)] = [vs[v] EXCEPT !._size = vs[Other(v)]._size]]

\* v.swap(x) on the objects vs, x being the other object:
\* std::swap of _alloc, _capacity, _size and _data
vector_swap(vs, v) == [vs EXCEPT ![v] = vs[Other(v)], ![Other(v)] = vs[v]]

VecSwap(v) ==
    /\ Ready
    /\ Spend
    /\ vec' = vector_swap(vec, v)
    /\ Observe(Call("swap", v, 0, 0, 0, 0, 0))
    /\ UNCHANGED rvars

\* at(n), for any n; the call is always observed
VecAt(v) ==
    /\ Ready
    /\ Spend
    /\ \E n \in 0..(MaxLen + 1) :
           /\ vlast' = [Call("at", v, n, 0, 0, 0, 0)
                           EXCEPT !.threw = at(vec[v], n).threw,
                                  !.idx = at(vec[v], n).slot]
           /\ vpre' = vec
           /\ UNCHANGED <<vec, rvars>>

\* ------------------------------------------------------------------
\* vector<T, Alloc>: the calls when _alloc.allocate throws
\* ------------------------------------------------------------------
\* reallocate(cap) when _alloc.allocate(cap) throws: the exception leaves
\* the function at its first statement, before any member is assigned.
reallocate_throws(o, cap) == o

\* push_back / emplace_back / insert(position, val): reallocate is their
\* first statement, reached when _size == _capacity
push_back_nomem(o, val) == reallocate_throws(o, beta * o._capacity)

emplace_back_nomem(o, val) == reallocate_throws(o, beta * o._capacity)

insert_nomem(o, idx, val) == reallocate_throws(o, beta * o._capacity)

\* insert(position, first, last): reallocate is reached when
\* _size + n >= _capacity, before shift_array
insert_range_nomem(o, idx, n) == reallocate_throws(o, beta * (o._size + n))

\* resize(n): reallocate is reached when n > _capacity, before _size = n
resize_nomem(o, n) == reallocate_throws(o, n)

\* resize(n, val): resize(n) throws, the loop is not reached
resize_val_nomem(o, n, val) == resize_nomem(o, n)

reserve_nomem(o, n) == reallocate_throws(o, n)

shrink_to_fit_nomem(o) == reallocate_throws(o, o._size)

\* assign(...): clear() has run when reallocate is reached (n >= _capacity)
assign_fill_nomem(o, n, val) == reallocate_throws(clear(o), beta * n)

assign_list_nomem(o, il) == reallocate_throws(clear(o), beta * Len(il))

assign_range_nomem(o, n) == reallocate_throws(clear(o), beta * n)

\* the call c, ended by the allocator's exception
Thrown(c) == [c EXCEPT !.threw = TRUE]

VecPushBackNoMem(v) ==
    /\ Ready
    /\ vec[v]._size = vec[v]._capacity
    /\ \E val \in Elems :
           VecStep(v, push_back_nomem(vec[v], val),
                   Thrown(Call("push_back", v, 0, val, 0, 0, 0)))

VecEmplaceBackNoMem(v) ==
    /\ Ready
    /\ vec[v]._size = vec[v]._capacity
    /\ \E val \in Elems :
           VecStep(v, emplace_back_nomem(vec[v], val),
                   Thrown(Call("emplace_back", v, 0, val, 0, 0, 0)))

VecInsertNoMem(v) ==
    /\ Ready
    /\ vec[v]._size = vec[v]._capacity
    /\ \E idx \in 0..vec[v]._size, val \in Elems :
           VecStep(v, insert_nomem(vec[v], idx, val),
                   Thrown(Call("insert", v, 0, val, idx, 0, 0)))

VecInsertRangeNoMem(v) ==
    /\ Ready
    /\ LET src == vec[Other(v)]
       IN \E idx \in 0..vec[v]._size :
          \E f \in 0..src._size :
          \E l \in f..src._size :
          \E n \in get_iterator_diff(src, it_advance(begin(src), f),
                                     it_advance(begin(src), l)) :
              /\ vec[v]._size + n >= vec[v]._capacity
              /\ VecStep(v, insert_range_nomem(vec[v], idx, n),
                         Thrown(Call("insert(first,last)", v, n, 0, idx, f, l)))

VecResizeNoMem(v) ==
    /\ Ready
    /\ \E n \in Counts :
           /\ n >= vec[v]._size
           /\ n > vec[v]._capacity
           /\ VecStep(v, resize_nomem(vec[v], n),
                      Thrown(Call("resize(n)", v, n, 0, 0, 0, 0)))

VecResizeValNoMem(v) ==
    /\ Ready
    /\ \E n \in Counts, val \in Elems :
           /\ n >= vec[v]._size
           /\ n > vec[v]._capacity
           /\ VecStep(v, resize_val_nomem(vec[v], n, val),
                      Thrown(Call("resize(n,val)", v, n, val, 0, 0, 0)))

VecReserveNoMem(v) ==
    /\ Ready
    /\ \E n \in 0..(MaxLen + 1) :
           /\ n > vec[v]._capacity
           /\ VecStep(v, reserve_nomem(vec[v], n),
                      Thrown(Call("reserve", v, n, 0, 0, 0, 0)))

VecShrinkToFitNoMem(v) ==
    /\ Ready
    /\ vec[v]._capacity > vec[v]._size
    /\ VecStep(v, shrink_to_fit_nomem(vec[v]),
               Thrown(Call("shrink_to_fit", v, 0, 0, 0, 0, 0)))

VecAssignFillNoMem(v) ==
    /\ Ready
    /\ \E n \in Counts, val \in Elems :
           /\ n >= vec[v]._capacity
           /\ VecStep(v, assign_fill_nomem(vec[v], n, val),
                      Thrown(Call("assign(n,val)", v, n, val, 0, 0, 0)))

VecAssignListNoMem(v) ==
    /\ Ready
    /\ \E il \in Lists :
           /\ Len(il) >= vec[v]._capacity
           /\ VecStep(v, assign_list_nomem(vec[v], il),
                      Thrown([Call("assign(il)", v, Len(il), 0, 0, 0, 0)
                                 EXCEPT !.il = il]))

\* ------------------------------------------------------------------
\* Two vectors in one heap: a store outside the block of the object it is
\* made through is undefined behaviour, and one of its outcomes is that it
\* lands in a slot of the other object's block.
\* ------------------------------------------------------------------
\* what a call that took object o to o2 can have made of the other object
Stray(o, o2, other) ==
    IF o2.oob /\ ~o.oob
    THEN {other} \cup {[other EXCEPT !.mem[i] = x] :
                           i \in 0..(other.alloc - 1), x \in Elems}
    ELSE {other}

\* A call on object v in the heap it shares with the other object.
HeapStep(v, o2, c) ==
    /\ Spend
    /\ \E w \in Stray(vec[v], o2, vec[Other(v)]) :
           vec' = [vec EXCEPT ![v] = o2, ![Other(v)] = w]
    /\ Observe(c)
    /\ UNCHANGED rvars

\* operator[](n) = val with n < size()
HeapWrite(v) ==
    /\ Ready
    /\ \E n \in 0..(vec[v]._size - 1), val \in Elems :
           HeapStep(v, Store(vec[v], index(vec[v], n).slot, val),
                    Call("operator[]", v, n, val, 0, 0, 0))

HeapPushBack(v) ==
    /\ Ready
    /\ vec[v]._size < MaxLen
    /\ \E val \in Elems :
           HeapStep(v, push_back(vec[v], val),
                    Call("push_back", v, 0, val, 0, 0, 0))

HeapInsert(v) ==
    /\ Ready
    /\ vec[v]._size < MaxLen
    /\ \E idx \in 0..vec[v]._size, val \in Elems :
           HeapStep(v, insert(vec[v], idx, val),
                    Call("insert", v, 0, val, idx, 0, 0))

HeapResizeVal(v) ==
    /\ Ready
    /\ \E n \in Counts, val \in Elems :
           HeapStep(v, resize_val(vec[v], n, val),
                    Call("resize(n,val)", v, n, val, 0, 0, 0))

HeapAssignFill(v) ==
    /\ Ready
    /\ \E n \in Counts, val \in Elems :
           HeapStep(v, assign_fill(vec[v], n, val),
                    Call("assign(n,val)", v, n, val, 0, 0, 0))

HeapClear(v) ==
    /\ Ready
    /\ HeapStep(v, clear(vec[v]), Call("clear", v, 0, 0, 0, 0, 0))

VecAssignRangeNoMem(v) ==
    /\ Ready
    /\ LET src == vec[Other(v)]
       IN \E f \in 0..src._size :
          \E l \in f..src._size :
          \E n \in get_iterator_diff(src, it_advance(begin(src), f),
                                     it_advance(begin(src), l)) :
              /\ n >= vec[v]._capacity
              /\ VecStep(v, assign_range_nomem(vec[v], n),
                         Thrown(Call("assign(first,last)", v, n, 0, 0, f, l)))

InitVecFields ==
    /\ vec = [v \in Vecs |-> vector_default]
    /\ vlast = NoCall
    /\ vpre = [v \in Vecs |-> vector_default]
    /\ budget = Unlimited

\* ------------------------------------------------------------------
\* circular_buffer<T, N>
\* ------------------------------------------------------------------
BUFFER_SIZE == N

\* C36 mutant: a constructor that starts the tail at the head
circular_buffer_tail_at_head(n) ==
    [d_container |-> [i \in 0..(n - 1) |-> DefaultT],
     d_head |-> 0,
     d_tail |-> 0,
     d_size |-> 0]

\* circular_buffer(): d_container(), d_head(0), d_tail(BUFFER_SIZE - 1), d_size(0)
circular_buffer(n) ==
    [d_container |-> [i \in 0..(n - 1) |-> DefaultT],
     d_head |-> 0,
     d_tail |-> n - 1,
     d_size |-> 0]

\* circular_buffer(const circular_buffer& other): every member from other
circular_buffer_copy(other) ==
    [d_container |-> other.d_container,
     d_head |-> other.d_head,
     d_tail |-> other.d_tail,
     d_size |-> other.d_size]

\* circular_buffer(circular_buffer&& other): std::move of a std::array of
\* int copies the elements; the indices are copied
circular_buffer_move(other) ==
    [d_container |-> other.d_container,
     d_head |-> other.d_head,
     d_tail |-> other.d_tail,
     d_size |-> other.d_size]

\* an assignment that takes the indices but keeps its own elements
rb_assign_indices(b, rhs) ==
    [b EXCEPT !.d_head = rhs.d_head, !.d_tail = rhs.d_tail,
              !.d_size = rhs.d_size]

\* operator=(const circular_buffer& rhs)
rb_assign(b, rhs) ==
    [b EXCEPT !.d_container = rhs.d_container, !.d_head = rhs.d_head,
              !.d_tail = rhs.d_tail, !.d_size = rhs.d_size]

\* operator=(circular_buffer&& rhs)
rb_assign_move(b, rhs) ==
    [b EXCEPT !.d_container = rhs.d_container, !.d_head = rhs.d_head,
              !.d_tail = rhs.d_tail, !.d_size = rhs.d_size]

\* C6 mutant: the head index is not wrapped at BUFFER_SIZE
increment_head_nowrap(b) ==
    IF b.d_size # 0
    THEN [b EXCEPT !.d_head = b.d_head + 1, !.d_size = b.d_size - 1]
    ELSE b

\* C13 mutant: the head is advanced and the size is kept
increment_head_keepsize(b) ==
    IF b.d_size # 0
    THEN LET h == b.d_head + 1
         IN [b EXCEPT !.d_head = IF h = BUFFER_SIZE THEN 0 ELSE h]
    ELSE b

increment_head(b) ==
    IF b.d_size # 0
    THEN LET h == b.d_head + 1
         IN [b EXCEPT !.d_head = IF h = BUFFER_SIZE THEN 0 ELSE h,
                      !.d_size = b.d_size - 1]
    ELSE b

increment_tail(b) ==
    LET t == b.d_tail + 1
    IN [b EXCEPT !.d_tail = IF t = BUFFER_SIZE THEN 0 ELSE t,
                 !.d_size = b.d_size + 1]

\* C4 mutant: the head is advanced as soon as the buffer becomes full
rb_push_back_ge(b, val) ==
    LET b1 == increment_tail(b)
        b2 == IF b1.d_size >= BUFFER_SIZE THEN increment_head(b1) ELSE b1
    IN [b2 EXCEPT !.d_container[b2.d_tail] = val]

\* C5 mutant: a full buffer is overwritten without advancing the head
rb_push_back_noevict(b, val) ==
    LET b1 == increment_tail(b)
    IN [b1 EXCEPT !.d_container[b1.d_tail] = val,
                  !.d_size = IF b1.d_size > BUFFER_SIZE THEN BUFFER_SIZE ELSE b1.d_size]

\* C23 mutant: the value is stored before the tail is advanced
rb_push_back_stale(b, val) ==
    LET b0 == [b EXCEPT !.d_container[b.d_tail] = val]
        b1 == increment_tail(b0)
    IN IF b1.d_size > BUFFER_SIZE THEN increment_head(b1) ELSE b1

\* push_back(const T&), push_back(T&&)
rb_push_back(b, val) ==
    LET b1 == increment_tail(b)
        b2 == IF b1.d_size > BUFFER_SIZE THEN increment_head(b1) ELSE b1
    IN [b2 EXCEPT !.d_container[b2.d_tail] = val]

\* emplace_back(Args&&...): d_container[d_tail] = T(args...)
rb_emplace_back(b, val) ==
    LET b1 == increment_tail(b)
        b2 == IF b1.d_size > BUFFER_SIZE THEN increment_head(b1) ELSE b1
    IN [b2 EXCEPT !.d_container[b2.d_tail] = val]

\* C12 mutant: the head is advanced without the d_size != 0 guard
rb_pop_front_unguarded(b) ==
    LET h == b.d_head + 1
    IN [b EXCEPT !.d_head = IF h = BUFFER_SIZE THEN 0 ELSE h,
                 !.d_size = b.d_size - 1]

\* C14 mutant: pop_front drops every element
rb_pop_front_all(b) ==
    [b EXCEPT !.d_head = (b.d_tail + 1) % BUFFER_SIZE, !.d_size = 0]

\* pop_front(): increment_head()
rb_pop_front(b) == increment_head(b)

\* operator[](n): n += d_head; n %= BUFFER_SIZE; return d_container[n]
rb_index(b, n) == b.d_container[(n + b.d_head) % BUFFER_SIZE]

rb_at(b, n) == rb_index(b, n)

rb_front(b) == b.d_container[b.d_head]

rb_back(b) == b.d_container[b.d_tail]

rb_size(b) == b.d_size

rb_capacity(b) == BUFFER_SIZE

rb_max_size(b) == BUFFER_SIZE

\* ------------------------------------------------------------------
\* circular_buffer<T, N>::myIterator: the members offset, index and reverse;
\* ptrToBuffer always points at d_container of the buffer the iterator was
\* taken from, which the operators below receive as b.
\* ------------------------------------------------------------------
myIterator(offset, idx, reverse) ==
    [index |-> idx, offset |-> offset, reverse |-> reverse]

\* a comparison that ignores the direction of the two iterators
comparable_any(it, other) == TRUE

\* comparable(other): reverse == other.reverse
comparable(it, other) == it.reverse = other.reverse

\* operator==
rb_it_eq(it, other) ==
    IF comparable(it, other)
    THEN it.index + it.offset = other.index + other.offset
    ELSE FALSE

\* operator!=
rb_it_ne(it, other) ==
    IF comparable(it, other) THEN ~rb_it_eq(it, other) ELSE TRUE

\* operator++
rb_it_inc(it) == [it EXCEPT !.index = it.index + 1]

RECURSIVE rb_it_advance(_, _)
rb_it_advance(it, k) == IF k = 0 THEN it ELSE rb_it_advance(rb_it_inc(it), k - 1)

\* the slot of d_container operator* refers to; ptrToBuffer->size() is N
rb_it_slot(it) ==
    IF it.reverse
    THEN (BUFFER_SIZE + it.offset - it.index) % BUFFER_SIZE
    ELSE (it.offset + it.index) % BUFFER_SIZE

\* operator*
rb_it_deref(b, it) == b.d_container[rb_it_slot(it)]

\* a begin() that starts at slot 0 whatever the head is
rb_begin_unrotated(b) == myIterator(0, 0, FALSE)

\* begin(): offset = d_head, index = 0, reverse = false
rb_begin(b) == myIterator(b.d_head, 0, FALSE)

\* end(): offset = d_head, index = d_size, reverse = false
rb_end(b) == myIterator(b.d_head, b.d_size, FALSE)

\* an rbegin() that starts at the head
rb_rbegin_at_head(b) == myIterator(b.d_head, 0, TRUE)

\* rbegin(): offset = d_tail, index = 0, reverse = true
rb_rbegin(b) == myIterator(b.d_tail, 0, TRUE)

\* rend(): offset = d_tail, index = d_size, reverse = true
rb_rend(b) == myIterator(b.d_tail, b.d_size, TRUE)

\* The reference FIFO of capacity n.
FifoPush(q, n, v) == IF Len(q) = n THEN Append(Tail(q), v) ELSE Append(q, v)

FifoPop(q) == IF q = <<>> THEN q ELSE Tail(q)

\* A pushed value: the ordinal of the push, or a small repeated value.
PushValues == {pushes + 1} \cup SmallValues

RingRecord(op, v) ==
    /\ rlast' = [val |-> v, op |-> op]
    /\ rpre' = rb
    /\ UNCHANGED <<vvars, rb2>>

RingPushGhost(v) ==
    /\ pushes < MaxPush
    /\ fifo' = FifoPush(fifo, N, v)
    /\ pushes' = pushes + 1
    /\ ordinal' = (ordinal /\ v = pushes + 1)
    /\ UNCHANGED N

PushBack ==
    \E v \in PushValues :
        /\ RingPushGhost(v)
        /\ rb' = rb_push_back(rb, v)
        /\ RingRecord("push_back", v)

EmplaceBack ==
    \E v \in PushValues :
        /\ RingPushGhost(v)
        /\ rb' = rb_emplace_back(rb, v)
        /\ RingRecord("emplace_back", v)

PopFront ==
    /\ rb' = rb_pop_front(rb)
    /\ fifo' = FifoPop(fifo)
    /\ ordinal' = FALSE
    /\ RingRecord("pop_front", DefaultT)
    /\ UNCHANGED <<N, pushes>>

InitRing ==
    /\ InitVecFields
    /\ N \in 1..MaxN
    /\ rb = circular_buffer(N)
    /\ fifo = <<>>
    /\ pushes = 0
    /\ ordinal = TRUE
    /\ rlast = [val |-> DefaultT, op |-> "construct"]
    /\ rpre = circular_buffer(N)
    /\ rb2 = circular_buffer(N)

NextRing == PushBack \/ EmplaceBack \/ PopFront

SpecRing == InitRing /\ [][NextRing]_vars

\* ------------------------------------------------------------------
\* Two circular_buffer objects: rb is filled and emptied, then rb2 is made
\* from it (constructed or assigned, by copy or by move) and changed; rb2
\* may be assigned from rb again after it was changed.
\* ------------------------------------------------------------------
SourceOps == {"construct", "push_back", "emplace_back", "pop_front"}

CopyOps == {"copy ctor", "move ctor", "copy assign", "move assign"}

DestOps == {"dest push_back", "dest pop_front", "dest write"}

\* a call on rb, as long as rb2 was not made from it yet
SourceCall ==
    /\ rlast.op \in SourceOps
    /\ (PushBack \/ EmplaceBack \/ PopFront)

\* rb2 becomes d: the call is recorded with the source it was given
MakeDest(op, d) ==
    /\ rb2' = d
    /\ rlast' = [val |-> DefaultT, op |-> op]
    /\ rpre' = rb
    /\ UNCHANGED <<vvars, N, rb, fifo, pushes, ordinal>>

\* rb2 can be made from rb once rb's calls are over or rb2 was just changed
MayCopy == rlast.op \in SourceOps \cup DestOps

CopyCtor ==
    /\ MayCopy
    /\ MakeDest("copy ctor", circular_buffer_copy(rb))

MoveCtor ==
    /\ MayCopy
    /\ MakeDest("move ctor", circular_buffer_move(rb))

CopyAssign ==
    /\ MayCopy
    /\ MakeDest("copy assign", rb_assign(rb2, rb))

MoveAssign ==
    /\ MayCopy
    /\ MakeDest("move assign", rb_assign_move(rb2, rb))

\* one call on rb2 after it was made from rb
ChangeDest(op, v, d) ==
    /\ rb2' = d
    /\ rlast' = [val |-> v, op |-> op]
    /\ rpre' = rb
    /\ UNCHANGED <<vvars, N, rb, fifo, pushes, ordinal>>

DestPushBack ==
    /\ rlast.op \in CopyOps
    /\ \E v \in SmallValues :
           ChangeDest("dest push_back", v, rb_push_back(rb2, v))

DestPopFront ==
    /\ rlast.op \in CopyOps
    /\ ChangeDest("dest pop_front", DefaultT, rb_pop_front(rb2))

\* rb2[n] = v with n < size(): operator[] returns a reference to the slot
DestWrite ==
    /\ rlast.op \in CopyOps
    /\ \E n \in 0..(rb2.d_size - 1), v \in SmallValues :
           ChangeDest("dest write", v,
                      [rb2 EXCEPT !.d_container[(n + rb2.d_head) % BUFFER_SIZE] = v])

NextRingCopy ==
    \/ SourceCall
    \/ CopyCtor
    \/ MoveCtor
    \/ CopyAssign
    \/ MoveAssign
    \/ DestPushBack
    \/ DestPopFront
    \/ DestWrite

SpecRingCopy == InitRing /\ [][NextRingCopy]_vars

InitRingFields ==
    /\ N = 1
    /\ rb = circular_buffer(1)
    /\ fifo = <<>>
    /\ pushes = 0
    /\ ordinal = TRUE
    /\ rlast = [val |-> DefaultT, op |-> "construct"]
    /\ rpre = circular_buffer(1)
    /\ rb2 = circular_buffer(1)

\* One vector object, a, and every call that involves no second vector.
InitVec ==
    /\ InitVecFields
    /\ InitRingFields

NextVec ==
    \/ CtorDefault("a")
    \/ CtorFill("a")
    \/ CtorFillVal("a")
    \/ CtorList("a")
    \/ VecPushBack("a")
    \/ VecEmplaceBack("a")
    \/ VecPopBack("a")
    \/ VecInsert("a")
    \/ VecAssignFill("a")
    \/ VecAssignList("a")
    \/ VecResize("a")
    \/ VecResizeVal("a")
    \/ VecReserve("a")
    \/ VecShrinkToFit("a")
    \/ VecClear("a")
    \/ VecAt("a")

SpecVec == InitVec /\ [][NextVec]_vars

\* Two vector objects, each built by one of the constructors that take no
\* vector, then at most MaxOps calls of any kind on either.
Seeds ==
    {vector_default}
        \cup {vector_fill(n) : n \in Counts}
        \cup {vector_fill_val(n, val) : n \in Counts, val \in Elems}
        \cup {vector_list(il) : il \in Lists}

InitVec2 ==
    /\ vec \in [Vecs -> Seeds]
    /\ vlast = NoCall
    /\ vpre = [v \in Vecs |-> vector_default]
    /\ budget = MaxOps
    /\ InitRingFields

NextVec2 ==
    \E v \in Vecs :
        \/ CtorDefault(v)
        \/ CtorFill(v)
        \/ CtorFillVal(v)
        \/ CtorList(v)
        \/ CtorRange(v)
        \/ CtorCopy(v)
        \/ CtorMove(v)
        \/ VecPushBack(v)
        \/ VecEmplaceBack(v)
        \/ VecPopBack(v)
        \/ VecInsert(v)
        \/ VecInsertRange(v)
        \/ VecAssignFill(v)
        \/ VecAssignList(v)
        \/ VecAssignRange(v)
        \/ VecResize(v)
        \/ VecResizeVal(v)
        \/ VecReserve(v)
        \/ VecShrinkToFit(v)
        \/ VecClear(v)
        \/ VecSwap(v)
        \/ VecAt(v)

SpecVec2 == InitVec2 /\ [][NextVec2]_vars

\* Two vector objects as in SpecVec2, with an allocator that may throw in
\* any call that allocates.
NextMem ==
    \/ NextVec2
    \/ \E v \in Vecs :
           \/ VecPushBackNoMem(v)
           \/ VecEmplaceBackNoMem(v)
           \/ VecInsertNoMem(v)
           \/ VecInsertRangeNoMem(v)
           \/ VecResizeNoMem(v)
           \/ VecResizeValNoMem(v)
           \/ VecReserveNoMem(v)
           \/ VecShrinkToFitNoMem(v)
           \/ VecAssignFillNoMem(v)
           \/ VecAssignListNoMem(v)
           \/ VecAssignRangeNoMem(v)

SpecMem == InitVec2 /\ [][NextMem]_vars

\* Two vectors, one copy-constructed from the other and then changed, in a
\* heap where a store outside a block can land in the other block.
NextHeap ==
    \E v \in Vecs :
        \/ CtorCopy(v)
        \/ HeapWrite(v)
        \/ HeapPushBack(v)
        \/ HeapInsert(v)
        \/ HeapResizeVal(v)
        \/ HeapAssignFill(v)
        \/ HeapClear(v)

SpecHeap == InitVec2 /\ [][NextHeap]_vars

\* One vector object, built (and built again) by the constructors that take
\* no vector; between two constructions only push_back, emplace_back and
\* insert(position, val) are called on it.
NextGrow ==
    \/ CtorDefault("a")
    \/ CtorFill("a")
    \/ CtorFillVal("a")
    \/ CtorList("a")
    \/ VecPushBack("a")
    \/ VecEmplaceBack("a")
    \/ VecInsert("a")

SpecGrow == InitVec /\ [][NextGrow]_vars

IsPush == rlast.op \in {"push_back", "emplace_back"}

\* ------------------------------------------------------------------
\* Claims about the ring buffer
\* ------------------------------------------------------------------

\* C4: after any sequence of push_back / emplace_back / pop_front calls,
\* size() and at(0..size()-1) (equivalently operator[]) equal the length and
\* the contents of the reference bounded FIFO of capacity N.
C4_RingRefinesFifo ==
    /\ rb_size(rb) = Len(fifo)
    /\ \A n \in 0..(rb_size(rb) - 1) :
          /\ rb_at(rb, n) = fifo[n + 1]
          /\ rb_index(rb, n) = fifo[n + 1]
          /\ rb_at(rb, n) = rb.d_container[(rb.d_head + n) % N]

\* C4 witness: a wrapped buffer that has evicted and popped still holds elements.
C4_Witness ==
    /\ N = 3
    /\ pushes > N
    /\ rlast.op = "pop_front"
    /\ rb.d_size = 2
    /\ rb.d_head > rb.d_tail

\* C5: a push on a full buffer keeps size() == N, advances head by one
\* modulo N, makes front() the element previously at logical index 1 (the
\* pushed value when N == 1) and moves every survivor down one logical index;
\* with N = 5 and the pushes 1, 2, ..., front() after the k-th push is k - 4.
C5_Eviction ==
    (IsPush /\ rpre.d_size = N) =>
        /\ rb_size(rb) = N
        /\ rb.d_head = (rpre.d_head + 1) % N
        /\ rb_front(rb) = IF N = 1 THEN rlast.val ELSE rb_at(rpre, 1)
        /\ \A n \in 0..(N - 2) : rb_at(rb, n) = rb_at(rpre, n + 1)
        /\ rb_at(rb, N - 1) = rlast.val
        /\ (ordinal /\ N = 5) => rb_front(rb) = pushes - 4

\* C5 witness: N = 5, the pushes were 1..11, and front() is 7.
C5_Witness ==
    /\ IsPush
    /\ rpre.d_size = N
    /\ N = 5
    /\ ordinal
    /\ pushes = 11
    /\ rb_front(rb) = 7
    /\ rb_back(rb) = 11

\* C6: 0 <= size() <= N, head and tail are indices in [0, N), and capacity()
\* and max_size() are N, in every reachable state.
C6_RingTypeInvariant ==
    /\ rb.d_size \in 0..N
    /\ rb.d_head \in 0..(N - 1)
    /\ rb.d_tail \in 0..(N - 1)
    /\ rb_capacity(rb) = N
    /\ rb_max_size(rb) = N

\* C6 witness: pop_front on a buffer that was overfilled and emptied again.
C6_Witness ==
    /\ rlast.op = "pop_front"
    /\ rpre.d_size = 0
    /\ rb.d_size = 0
    /\ pushes > N
    /\ N > 1

\* C12: pop_front on an empty buffer changes nothing: head, tail, size and
\* every slot are what they were, in the initial state and in every state
\* emptied after pushes and pops.
C12_PopEmptyIsNoop ==
    (rlast.op = "pop_front" /\ rb_size(rpre) = 0) => rb = rpre

\* C12 witness: pop_front on a buffer that was filled and popped empty, its
\* head no longer at 0.
C12_Witness ==
    /\ rlast.op = "pop_front"
    /\ rb_size(rpre) = 0
    /\ rb = rpre
    /\ pushes > 0
    /\ rb.d_head # 0

\* C13: pop_front on a non-empty buffer decreases size() by one, advances
\* head by one modulo N and leaves tail and every slot alone; if an element
\* remains, front() is the element that was at logical index 1 and back() is
\* unchanged.
C13_PopNonEmpty ==
    (rlast.op = "pop_front" /\ rb_size(rpre) > 0) =>
        /\ rb_size(rb) = rb_size(rpre) - 1
        /\ rb.d_head = (rpre.d_head + 1) % N
        /\ rb.d_tail = rpre.d_tail
        /\ rb.d_container = rpre.d_container
        /\ rb_size(rb) > 0 =>
               /\ rb_front(rb) = rb_at(rpre, 1)
               /\ rb_back(rb) = rb_back(rpre)

\* C13 witness: capacity 3 after the pushes 1, 2, 3, 4 and two pops: front()
\* went from 3 to 4 across the wrap and back() stayed 4.
C13_Witness ==
    /\ N = 3
    /\ pushes = 4
    /\ rlast.op = "pop_front"
    /\ rb_size(rpre) = 2
    /\ rb_front(rpre) = 3
    /\ rb_back(rpre) = 4
    /\ rb_front(rb) = 4
    /\ rb_back(rb) = 4
    /\ rb.d_head = 0

\* Empty (size = 0), Partial (0 < size < N), Full (size = N)
RingClass(b) ==
    IF rb_size(b) = 0 THEN "Empty"
    ELSE IF rb_size(b) < BUFFER_SIZE THEN "Partial"
    ELSE "Full"

PushTransitions ==
    {<<"Empty", "Partial">>, <<"Partial", "Partial">>,
     <<"Partial", "Full">>, <<"Full", "Full">>}

PopTransitions ==
    {<<"Full", "Partial">>, <<"Partial", "Partial">>,
     <<"Partial", "Empty">>, <<"Empty", "Empty">>}

\* C14 as stated: for every N >= 1 each push step is Empty->Partial,
\* Partial->Partial, Partial->Full or Full->Full, and each pop_front step is
\* Full->Partial, Partial->Partial, Partial->Empty or Empty->Empty.
C14_Original ==
    [][/\ rlast'.op \in {"push_back", "emplace_back"}
           => <<RingClass(rb), RingClass(rb')>> \in PushTransitions
       /\ rlast'.op = "pop_front"
           => <<RingClass(rb), RingClass(rb')>> \in PopTransitions]_vars

\* C14 amended: the transitions above hold for every N >= 2; for N = 1 there
\* is no Partial state, a push goes Empty->Full or Full->Full and a
\* pop_front goes Full->Empty or Empty->Empty.
C14_StateMachine ==
    [][IF N >= 2
       THEN /\ rlast'.op \in {"push_back", "emplace_back"}
                => <<RingClass(rb), RingClass(rb')>> \in PushTransitions
            /\ rlast'.op = "pop_front"
                => <<RingClass(rb), RingClass(rb')>> \in PopTransitions
       ELSE /\ rlast'.op \in {"push_back", "emplace_back"}
                => <<RingClass(rb), RingClass(rb')>>
                       \in {<<"Empty", "Full">>, <<"Full", "Full">>}
            /\ rlast'.op = "pop_front"
                => <<RingClass(rb), RingClass(rb')>>
                       \in {<<"Full", "Empty">>, <<"Empty", "Empty">>}]_vars

\* C14 witness: a push on a full buffer of capacity 2 or more, which was
\* empty, partial and full before.
C14_Witness ==
    /\ N >= 2
    /\ IsPush
    /\ RingClass(rpre) = "Full"
    /\ RingClass(rb) = "Full"
    /\ pushes > N

\* ------------------------------------------------------------------
\* vector<T, Alloc>: what a caller reads
\* ------------------------------------------------------------------
\* arr[0], ..., arr[size() - 1] as a sequence.  A slot that was never
\* written, or that lies outside the allocated block, reads as Uninit: no
\* value can be relied on there.
Contents(o) == [i \in 1..o._size |-> Load(o, i - 1)]

\* every element of the vector has a value that was written to it
Defined(o) == \A i \in 0..(o._size - 1) : Load(o, i) # Uninit

\* the mathematical list s with xs put in front of its element number idx
InsertAt(s, idx, xs) == SubSeq(s, 1, idx) \o xs \o SubSeq(s, idx + 1, Len(s))

Observed(opnames) == vlast.op \in opnames

\* C1: after push_back, emplace_back and insert(position, val) calls, size()
\* is the length of the list obtained by the same appends and inserts on a
\* mathematical sequence, and arr[n] is that list's n-th element.
C1_GrowRefinesList ==
    (Observed({"push_back", "emplace_back", "insert"}) /\ Defined(vpre[vlast.v]))
        => LET old == Contents(vpre[vlast.v])
               at_idx == IF vlast.op = "insert" THEN vlast.idx ELSE Len(old)
           IN Contents(vec[vlast.v]) = InsertAt(old, at_idx, <<vlast.val>>)

\* C2: 0 <= size() <= capacity() in every state, a moved-from vector and a
\* vector of capacity 0 included.
C2_SizeWithinCapacity ==
    \A v \in Vecs : 0 <= size(vec[v]) /\ size(vec[v]) <= capacity(vec[v])

\* C3: when size() = capacity(), push_back / emplace_back leaves capacity()
\* strictly greater, equal to 2 * max(old capacity, 1), keeps the prior
\* elements at their indices and puts the new element at index old size.
C3_GrowthIncreasesCapacity ==
    (/\ Observed({"push_back", "emplace_back"})
     /\ size(vpre[vlast.v]) = capacity(vpre[vlast.v])
     /\ Defined(vpre[vlast.v]))
        => LET pre == vpre[vlast.v]
               post == vec[vlast.v]
               cap1 == IF capacity(pre) > 1 THEN capacity(pre) ELSE 1
           IN /\ capacity(post) > capacity(pre)
              /\ capacity(post) = beta * cap1
              /\ Contents(post) = Contents(pre) \o <<vlast.val>>

\* C7: the number of slots allocated for the storage block is capacity(), and
\* every deallocate is passed the count that was allocated.
C7_AllocatedIsCapacity ==
    \A v \in Vecs : vec[v].alloc = capacity(vec[v]) /\ ~vec[v].badfree

\* C8: insert(position, first, last) with position = begin() + idx and k
\* elements in [first, last) gives size() = |old| + k and the contents
\* old[0..idx) ++ range ++ old[idx..).  Only the calls in which
\* get_iterator_diff counted k are looked at.
C8_RangeInsertContents ==
    (/\ Observed({"insert(first,last)"})
     /\ vlast.n = vlast.l - vlast.f
     /\ Defined(vpre[vlast.v])
     /\ Defined(vpre[Other(vlast.v)]))
        => LET old == Contents(vpre[vlast.v])
               src == Contents(vpre[Other(vlast.v)])
               range == SubSeq(src, vlast.f + 1, vlast.l)
           IN /\ size(vec[vlast.v]) = Len(old) + Len(range)
              /\ Contents(vec[vlast.v]) = InsertAt(old, vlast.idx, range)

\* C9: resize(n, val) with n >= size() gives size() = n, leaves the elements
\* at [0, old size) unchanged and makes those at [old size, n) equal val.
C9_ResizeValGrows ==
    (/\ Observed({"resize(n,val)"})
     /\ vlast.n >= size(vpre[vlast.v])
     /\ Defined(vpre[vlast.v]))
        => LET pre == vpre[vlast.v]
               post == vec[vlast.v]
           IN /\ size(post) = vlast.n
              /\ \A i \in 0..(size(pre) - 1) : Load(post, i) = Load(pre, i)
              /\ \A i \in size(pre)..(vlast.n - 1) : Load(post, i) = vlast.val

\* C10: at(n) signals a bounds error whenever n >= size(), and for n < size()
\* returns the element operator[](n) returns.
C10_AtChecksBounds ==
    Observed({"at"})
        => LET o == vpre[vlast.v]
           IN /\ vlast.n >= size(o) => vlast.threw
              /\ vlast.n < size(o) =>
                     ~vlast.threw /\ vlast.idx = index(o, vlast.n).slot


\* C11: when the allocator fails in a call that may allocate, the failure is
\* propagated and size(), capacity() and the element values are what they
\* were before the call.
C11_AllocFailureLeavesState ==
    (~Observed({"none", "at"}) /\ vlast.threw)
        => /\ size(vec[vlast.v]) = size(vpre[vlast.v])
           /\ capacity(vec[vlast.v]) = capacity(vpre[vlast.v])
           /\ Contents(vec[vlast.v]) = Contents(vpre[vlast.v])

\* C15: after b is move-constructed from a, a has size 0, capacity 0 and no
\* storage, and b has the size, the capacity, the storage and the element
\* values, in order, that a had before.
C15_MoveTransfers ==
    Observed({"vector(move)"})
        => LET b == vec[vlast.v]
               a == vec[Other(vlast.v)]
               a0 == vpre[Other(vlast.v)]
           IN /\ size(a) = 0
              /\ capacity(a) = 0
              /\ a.isnull
              /\ a.alloc = 0
              /\ size(b) = size(a0)
              /\ capacity(b) = capacity(a0)
              /\ Contents(b) = Contents(a0)
              /\ b.alloc = a0.alloc
              /\ b.mem = a0.mem

\* a vector of two different elements, with spare capacity, was moved from
C15_Witness ==
    /\ Observed({"vector(move)"})
    /\ Contents(vec[vlast.v]) = <<1, 2>>
    /\ capacity(vec[vlast.v]) > size(vec[vlast.v])
    /\ vpre[Other(vlast.v)] = vec[vlast.v]
    /\ vec[Other(vlast.v)].isnull

\* the calls that change a vector through the object they are made on
Mutators ==
    {"operator[]", "push_back", "insert", "resize(n,val)", "assign(n,val)",
     "clear"}

\* C16: a vector copy-constructed from another has its size, capacity and
\* element values, and no later change made through the copy (element write,
\* push_back, insert, resize, assign, clear) changes the size, the capacity
\* or an element value of the vector it was copied from.
C16_CopyIsIndependent ==
    /\ Observed({"vector(copy)"})
           => LET b == vec[vlast.v]
                  a == vpre[Other(vlast.v)]
              IN /\ size(b) = size(a)
                 /\ capacity(b) = capacity(a)
                 /\ Contents(b) = Contents(a)
    /\ (Observed(Mutators) /\ vpre[vlast.v] = vector_copy(vpre[Other(vlast.v)]))
           => LET a == vec[Other(vlast.v)]
                  a0 == vpre[Other(vlast.v)]
              IN /\ size(a) = size(a0)
                 /\ capacity(a) = capacity(a0)
                 /\ Contents(a) = Contents(a0)

\* C17: the range constructor called with [src.begin(), src.end()) of a
\* source whose slot just past the last element holds some left-over value
\* gives size() = the source's size, capacity() = 2 * that size and element
\* i = the source's element i.
C17_RangeCtorCopiesSource ==
    LET src == vpre[Other(vlast.v)]
    IN (/\ Observed({"vector(first,last)"})
        /\ vlast.f = 0
        /\ vlast.l = size(src)
        /\ Defined(src)
        /\ Load(src, src._size) # Uninit)
           => /\ size(vec[vlast.v]) = size(src)
              /\ capacity(vec[vlast.v]) = beta * size(src)
              /\ Contents(vec[vlast.v]) = Contents(src)

\* the forward iterators begin(), ..., end() of a vector
ForwardIters(o) == {it_advance(begin(o), k) : k \in 0..o._size}

\* the reverse iterators rbegin(), ..., rend() of a vector
ReverseIters(o) == {it_advance(rbegin(o), k) : k \in 0..o._size}

\* C18: a forward iterator and a reverse iterator of a vector never compare
\* equal (== is false, != is true), whatever their positions; in particular
\* end() is not equal to rend(), and begin() is not equal to rbegin().
C18_ForwardNeverEqualsReverse ==
    \A v \in Vecs :
        \A it \in ForwardIters(vec[v]), rit \in ReverseIters(vec[v]) :
            it_eq(vec[v], it, rit) = {FALSE}

\* the forward iterators and the reverse iterators a program can hold on the
\* buffer: begin() and rbegin() advanced any number of times up to MaxN
RingForward == {rb_it_advance(rb_begin(rb), k) : k \in 0..MaxN}

RingReverse == {rb_it_advance(rb_rbegin(rb), k) : k \in 0..MaxN}

\* C19: a forward iterator and a reverse iterator of a RingBuffer never
\* compare equal (== is false and != is true, in either order), whatever
\* their offset and index; this covers end() against rend() and begin()
\* against rbegin() of a one-element buffer.
C19_RingForwardNeverEqualsReverse ==
    \A it \in RingForward, rit \in RingReverse :
        /\ ~rb_it_eq(it, rit)
        /\ ~rb_it_eq(rit, it)
        /\ rb_it_ne(it, rit)
        /\ rb_it_ne(rit, it)

\* a one-element buffer whose head has moved: begin() and rbegin() have the
\* same offset and index and denote the same slot
C19_Witness ==
    /\ rb.d_size = 1
    /\ rb.d_head > 0
    /\ rb_begin(rb).offset = rb_rbegin(rb).offset
    /\ rb_it_slot(rb_begin(rb)) = rb_it_slot(rb_rbegin(rb))
    /\ rb_end(rb) \in RingForward
    /\ rb_rend(rb) \in RingReverse

\* C20: in every reachable state begin() incremented k times dereferences to
\* at(k) and is not yet equal to end() for every k in [0, size()), and after
\* size() increments it is equal to end(); begin() == end() for an empty
\* buffer.
C20_RingForwardIteration ==
    /\ \A k \in 0..(rb_size(rb) - 1) :
           LET it == rb_it_advance(rb_begin(rb), k)
           IN /\ rb_it_deref(rb, it) = rb_at(rb, k)
              /\ ~rb_it_eq(it, rb_end(rb))
              /\ rb_it_ne(it, rb_end(rb))
    /\ rb_it_eq(rb_it_advance(rb_begin(rb), rb_size(rb)), rb_end(rb))
    /\ ~rb_it_ne(rb_it_advance(rb_begin(rb), rb_size(rb)), rb_end(rb))

\* a full buffer of three whose oldest elements were evicted and whose
\* contents wrap around the end of the array
C20_Witness ==
    /\ N = 3
    /\ ordinal
    /\ pushes = 5
    /\ rb_size(rb) = 3
    /\ rb.d_head = 2
    /\ rb_it_deref(rb, rb_begin(rb)) = 3
    /\ rb_it_deref(rb, rb_it_advance(rb_begin(rb), 2)) = 5
    /\ rb_it_slot(rb_it_advance(rb_begin(rb), 2)) = 1

\* C21: in every reachable state with size() >= 1, rbegin() dereferences to
\* back(); incremented k times it dereferences to at(size() - 1 - k) and is
\* not yet equal to rend(), for every k in [0, size()); after size()
\* increments it is equal to rend().
C21_RingReverseIteration ==
    rb_size(rb) >= 1
        => /\ rb_it_deref(rb, rb_rbegin(rb)) = rb_back(rb)
           /\ \A k \in 0..(rb_size(rb) - 1) :
                  LET it == rb_it_advance(rb_rbegin(rb), k)
                  IN /\ rb_it_deref(rb, it) = rb_at(rb, rb_size(rb) - 1 - k)
                     /\ ~rb_it_eq(it, rb_rend(rb))
                     /\ rb_it_ne(it, rb_rend(rb))
           /\ rb_it_eq(rb_it_advance(rb_rbegin(rb), rb_size(rb)), rb_rend(rb))
           /\ ~rb_it_ne(rb_it_advance(rb_rbegin(rb), rb_size(rb)), rb_rend(rb))

\* a full buffer of three after five pushes: the reverse walk starts at slot
\* 1 and wraps below slot 0
C21_Witness ==
    /\ N = 3
    /\ ordinal
    /\ pushes = 5
    /\ rb_size(rb) = 3
    /\ rb.d_tail = 1
    /\ rb_it_deref(rb, rb_rbegin(rb)) = 5
    /\ rb_it_slot(rb_it_advance(rb_rbegin(rb), 2)) = 2
    /\ rb_it_deref(rb, rb_it_advance(rb_rbegin(rb), 2)) = 3

\* the slots of d_container that hold the elements at(0), ..., at(size() - 1)
LiveSlots(b) == {(k + b.d_head) % BUFFER_SIZE : k \in 0..(b.d_size - 1)}

\* C22: in every reachable state with size() >= 1, the slot denoted by a
\* forward iterator advanced to end() is not the slot of the front element
\* nor of any other live element, and the slot denoted by a reverse iterator
\* advanced to rend() is not the slot of the back element nor of any other
\* live element.
C22_RingIteratorsDoNotWrap ==
    rb_size(rb) >= 1
        => LET it == rb_it_advance(rb_begin(rb), rb_size(rb))
               rit == rb_it_advance(rb_rbegin(rb), rb_size(rb))
           IN /\ rb_it_eq(it, rb_end(rb))
              /\ rb_it_slot(it) # rb.d_head
              /\ rb_it_slot(it) \notin LiveSlots(rb)
              /\ rb_it_eq(rit, rb_rend(rb))
              /\ rb_it_slot(rit) # rb.d_tail
              /\ rb_it_slot(rit) \notin LiveSlots(rb)

\* C23: immediately after every push_back(v) or emplace_back(v), back() is
\* v and size() has grown by one unless it was already N; when the buffer
\* was empty before the push, front() is v as well.
C23_PushSetsBack ==
    IsPush
        => /\ rb_back(rb) = rlast.val
           /\ rb_size(rb) = IF rb_size(rpre) = N THEN N ELSE rb_size(rpre) + 1
           /\ (rb_size(rpre) = 0 => rb_front(rb) = rlast.val)

\* a push into a buffer of three that was filled past its capacity and then
\* emptied by pops, so that head and tail are in the middle of the array
C23_Witness ==
    /\ IsPush
    /\ N = 3
    /\ pushes > 4
    /\ rb_size(rpre) = 0
    /\ rpre.d_head > 0
    /\ rb_size(rb) = 1
    /\ rb_front(rb) = rlast.val
    /\ rb.d_head = rb.d_tail

\* C24: after reserve(n), capacity() is max(old capacity, n): exactly n when
\* n is greater than the old capacity and the old capacity otherwise; size()
\* and the element values are unchanged.
C24_ReserveExact ==
    Observed({"reserve"})
        => LET pre == vpre[vlast.v]
               post == vec[vlast.v]
           IN /\ capacity(post) = IF vlast.n > capacity(pre) THEN vlast.n
                                  ELSE capacity(pre)
              /\ capacity(post) >= capacity(pre)
              /\ size(post) = size(pre)
              /\ Contents(post) = Contents(pre)

\* reserve(3) on a vector that holds <<1, 2>> with capacity 2
C24_Witness ==
    /\ Observed({"reserve"})
    /\ vlast.n = 3
    /\ capacity(vpre[vlast.v]) = 2
    /\ Defined(vpre[vlast.v])
    /\ Contents(vec[vlast.v]) = <<1, 2>>
    /\ capacity(vec[vlast.v]) = 3

\* C25: after shrink_to_fit(), capacity() is size() when capacity() was
\* greater than size() and is unchanged otherwise; size() and the element
\* values at [0, size()) are unchanged.
C25_ShrinkToFit ==
    Observed({"shrink_to_fit"})
        => LET pre == vpre[vlast.v]
               post == vec[vlast.v]
           IN /\ capacity(post) = IF capacity(pre) > size(pre) THEN size(pre)
                                  ELSE capacity(pre)
              /\ size(post) = size(pre)
              /\ Contents(post) = Contents(pre)

\* shrink_to_fit() on a vector that holds <<1, 2>> with capacity 4
C25_Witness ==
    /\ Observed({"shrink_to_fit"})
    /\ capacity(vpre[vlast.v]) = 4
    /\ Defined(vpre[vlast.v])
    /\ Contents(vec[vlast.v]) = <<1, 2>>
    /\ capacity(vec[vlast.v]) = 2

\* C26: resize(n) with n > size() gives size() = n, leaves the elements at
\* [0, old size) unchanged and makes every element at [old size, n) a
\* default-constructed value.  Only the calls in which every slot at
\* [old size, n) had been written before are looked at.
C26_ResizeDefaultConstructs ==
    (/\ Observed({"resize(n)"})
     /\ vlast.n > size(vpre[vlast.v])
     /\ Defined(vpre[vlast.v])
     /\ \A i \in size(vpre[vlast.v])..(vlast.n - 1) :
            Load(vpre[vlast.v], i) # Uninit)
        => LET pre == vpre[vlast.v]
               post == vec[vlast.v]
           IN /\ size(post) = vlast.n
              /\ \A i \in 0..(size(pre) - 1) : Load(post, i) = Load(pre, i)
              /\ \A i \in size(pre)..(vlast.n - 1) : Load(post, i) = DefaultT

\* the elements an observed assign call was given
AssignSource ==
    IF vlast.op = "assign(n,val)" THEN [i \in 1..vlast.n |-> vlast.val]
    ELSE IF vlast.op = "assign(il)" THEN vlast.il
    ELSE SubSeq(Contents(vpre[Other(vlast.v)]), vlast.f + 1, vlast.l)

\* C27: after assign(n, value), assign(first, last) or assign(list), size()
\* is the number of source elements, element i is the i-th source element,
\* capacity() >= size(), and nothing of the previous contents is left.  For
\* the range form only sources whose slots up to the one last points at hold
\* written values are looked at.
C27_AssignReplacesContents ==
    (/\ Observed({"assign(n,val)", "assign(il)", "assign(first,last)"})
     /\ (vlast.op = "assign(first,last)"
            => \A i \in 0..vlast.l : Load(vpre[Other(vlast.v)], i) # Uninit))
        => LET post == vec[vlast.v]
           IN /\ size(post) = Len(AssignSource)
              /\ Contents(post) = AssignSource
              /\ capacity(post) >= size(post)

\* the sequence s back to front
Reversed(s) == [i \in 1..Len(s) |-> s[Len(s) + 1 - i]]

\* C28: stepping from rbegin() until the iterator compares equal to rend()
\* visits size() elements, the slots size() - 1, ..., 0 in that order, so
\* that a vector range-constructed from [v.rbegin(), v.rend()) has v's size
\* and holds v's elements in reverse order.
C28_VectorReverseIteration ==
    \A v \in Vecs :
        Defined(vec[v])
            => \A n \in get_iterator_diff(vec[v], rbegin(vec[v]), rend(vec[v])) :
                   /\ n = size(vec[v])
                   /\ size(vector_range(n, vec[v], size(vec[v]) - 1, 0 - 1))
                          = size(vec[v])
                   /\ Contents(vector_range(n, vec[v], size(vec[v]) - 1, 0 - 1))
                          = Reversed(Contents(vec[v]))

\* the iterator an observed insert call returned: get_iterator(idx) is the
\* last statement of every insert overload
InsertReturn == get_iterator(vec[vlast.v], vlast.idx)

\* C29: insert(position, value) and insert(position, first, last) return an
\* iterator whose index is the insertion index and which dereferences to the
\* first inserted element.  For the range form only the calls in which
\* get_iterator_diff counted the elements of a non-empty range are looked at.
C29_InsertReturnsFirstInserted ==
    /\ (Observed({"insert"}) /\ Defined(vpre[vlast.v]))
           => /\ InsertReturn._idx = vlast.idx
              /\ Load(vec[vlast.v], InsertReturn._curr) = vlast.val
    /\ (/\ Observed({"insert(first,last)"})
        /\ vlast.n = vlast.l - vlast.f
        /\ vlast.n >= 1
        /\ Defined(vpre[vlast.v])
        /\ Defined(vpre[Other(vlast.v)]))
           => /\ InsertReturn._idx = vlast.idx
              /\ Load(vec[vlast.v], InsertReturn._curr)
                     = Load(vpre[Other(vlast.v)], vlast.f)

\* size() = n, capacity() = 2n and the elements are those of the sequence xs
Constructed(o, n, xs) ==
    /\ size(o) = n
    /\ capacity(o) = beta * n
    /\ capacity(o) >= size(o)
    /\ (n >= 1 => capacity(o) > size(o))
    /\ Contents(o) = xs

\* the constructors without the range constructor
C30_PlainConstructors ==
    /\ Observed({"vector()"})
           => size(vec[vlast.v]) = 0 /\ capacity(vec[vlast.v]) = default_capacity
    /\ Observed({"vector(n)"})
           => Constructed(vec[vlast.v], vlast.n, [i \in 1..vlast.n |-> DefaultT])
    /\ Observed({"vector(n,val)"})
           => Constructed(vec[vlast.v], vlast.n, [i \in 1..vlast.n |-> vlast.val])
    /\ Observed({"vector(il)"})
           => Constructed(vec[vlast.v], Len(vlast.il), vlast.il)

\* C30: the default constructor gives size() = 0 and capacity() = 10; the
\* fill, fill-value, range and element-list constructors give size() = the
\* element count n, capacity() = 2n (greater than size() when n >= 1), and
\* elements that are default-constructed, copies of the value, or copies of
\* the source in order.  For the range constructor only sources whose slots
\* up to the one last points at hold written values are looked at.
C30_ConstructorPostconditions ==
    /\ C30_PlainConstructors
    /\ (/\ Observed({"vector(first,last)"})
        /\ \A i \in 0..vlast.l : Load(vpre[Other(vlast.v)], i) # Uninit)
           => Constructed(vec[vlast.v], vlast.l - vlast.f,
                          SubSeq(Contents(vpre[Other(vlast.v)]),
                                 vlast.f + 1, vlast.l))

\* C31: resize(n) and resize(n, value) with n < size() set size() to n and
\* change nothing else: capacity(), the storage block and every slot of it,
\* so every element at [0, n), are what they were, and the value is written
\* nowhere.
C31_ShrinkingResizeFrame ==
    (Observed({"resize(n)", "resize(n,val)"}) /\ vlast.n < size(vpre[vlast.v]))
        => LET pre == vpre[vlast.v]
               post == vec[vlast.v]
           IN /\ size(post) = vlast.n
              /\ capacity(post) = capacity(pre)
              /\ \A i \in 0..(vlast.n - 1) : Load(post, i) = Load(pre, i)
              /\ post = [pre EXCEPT !._size = vlast.n]

\* resize(1, 2) on a vector that holds <<1, 1>>
C31_Witness ==
    /\ Observed({"resize(n,val)"})
    /\ vlast.n = 1
    /\ vlast.val = 2
    /\ Contents(vpre[vlast.v]) = <<1, 1>>
    /\ Contents(vec[vlast.v]) = <<1>>
    /\ Load(vec[vlast.v], 1) = 1

\* C32: a.swap(b) exchanges size, capacity, storage and so the element
\* sequences of a and b without changing an element value, and a second swap
\* (made through either object) restores both vectors.
C32_SwapExchanges ==
    Observed({"swap"})
        => LET a == vlast.v
               b == Other(vlast.v)
           IN /\ size(vec[a]) = size(vpre[b]) /\ size(vec[b]) = size(vpre[a])
              /\ capacity(vec[a]) = capacity(vpre[b])
              /\ capacity(vec[b]) = capacity(vpre[a])
              /\ Contents(vec[a]) = Contents(vpre[b])
              /\ Contents(vec[b]) = Contents(vpre[a])
              /\ vec[a] = vpre[b] /\ vec[b] = vpre[a]
              /\ vector_swap(vec, a) = vpre
              /\ vector_swap(vec, b) = vpre

\* <<1, 2>> with capacity 4 and <<2>> with capacity 2 were swapped
C32_Witness ==
    /\ Observed({"swap"})
    /\ Contents(vpre[vlast.v]) = <<1, 2>>
    /\ Contents(vpre[Other(vlast.v)]) = <<2>>
    /\ Contents(vec[vlast.v]) = <<2>>
    /\ capacity(vec[vlast.v]) = 2
    /\ capacity(vec[Other(vlast.v)]) = 4

\* C33: clear() sets size() to 0 and pop_back() on a non-empty vector
\* decrements size() by one; both leave capacity() and the storage block as
\* they were, and pop_back() leaves every element at [0, size() - 1) unchanged.
C33_RemovalFrame ==
    /\ Observed({"clear"})
           => LET pre == vpre[vlast.v]
                  post == vec[vlast.v]
              IN /\ size(post) = 0
                 /\ capacity(post) = capacity(pre)
                 /\ post = [pre EXCEPT !._size = 0]
    /\ (Observed({"pop_back"}) /\ size(vpre[vlast.v]) >= 1)
           => LET pre == vpre[vlast.v]
                  post == vec[vlast.v]
              IN /\ size(post) = size(pre) - 1
                 /\ capacity(post) = capacity(pre)
                 /\ \A i \in 0..(size(pre) - 2) : Load(post, i) = Load(pre, i)
                 /\ post = [pre EXCEPT !._size = size(pre) - 1]

\* clear() on a vector that holds <<1, 2>> with capacity 4
C33_Witness ==
    /\ Observed({"clear"})
    /\ Contents(vpre[vlast.v]) = <<1, 2>>
    /\ capacity(vec[vlast.v]) = 4
    /\ size(vec[vlast.v]) = 0
    /\ Load(vec[vlast.v], 0) = 1

\* size(), front(), back() and at(n) for every n in [0, size()) of b
RingView(b) ==
    [sz |-> rb_size(b),
     fr |-> IF rb_size(b) > 0 THEN rb_front(b) ELSE DefaultT,
     bk |-> IF rb_size(b) > 0 THEN rb_back(b) ELSE DefaultT,
     els |-> [n \in 0..(rb_size(b) - 1) |-> rb_at(b, n)]]

\* C34: copy construction, move construction, copy assignment and move
\* assignment give the destination the source's size(), front(), back()
\* and at(n) for every n in [0, size()); a push_back, pop_front or element
\* write on the destination afterwards changes nothing that is observed
\* through the source.
C34_RingCopyAndMove ==
    /\ rlast.op \in CopyOps
           => /\ RingView(rb2) = RingView(rpre)
              /\ rb2.d_head = rpre.d_head
              /\ rb2.d_tail = rpre.d_tail
    /\ rlast.op \in DestOps
           => /\ RingView(rb) = RingView(rpre)
              /\ rb = rpre

\* a full, wrapped-around buffer of three was copy-assigned to rb2
C34_Witness ==
    /\ rlast.op = "copy assign"
    /\ N = 3
    /\ ordinal
    /\ pushes = 5
    /\ rb.d_head = 2
    /\ RingView(rb2).els = (0 :> 3 @@ 1 :> 4 @@ 2 :> 5)
    /\ RingView(rb2) = RingView(rb)

\* the calls C35 is about
StoringCalls ==
    {"push_back", "emplace_back", "insert", "insert(first,last)", "resize(n)",
     "resize(n,val)", "assign(n,val)", "assign(il)", "assign(first,last)"}

\* C35: every storage slot that push_back, emplace_back, single-element
\* insert, range insert, resize or assign reads or writes lies at an index
\* below the number of slots allocated for the block.  Only calls on vectors
\* whose block has capacity() slots and whose elements lie inside it are
\* looked at.
C35_AccessesInsideBlock ==
    (/\ Observed(StoringCalls)
     /\ ~vpre[vlast.v].oob
     /\ vpre[vlast.v].alloc = capacity(vpre[vlast.v])
     /\ size(vpre[vlast.v]) <= capacity(vpre[vlast.v])
     /\ ~vpre[Other(vlast.v)].oob
     /\ vpre[Other(vlast.v)].alloc = capacity(vpre[Other(vlast.v)]))
        => ~vec[vlast.v].oob

\* C36: in every reachable state tail == (head + size + N - 1) mod N, from
\* head = 0, tail = N - 1, size = 0 on; so with size() >= 1 back() is the
\* element at logical index size() - 1 (the same slot), and with size() == 1
\* front() and back() are the same slot.
C36_HeadTailRelation ==
    /\ rb.d_tail = (rb.d_head + rb.d_size + N - 1) % N
    /\ (rlast.op = "construct") =>
           (rb.d_head = 0 /\ rb.d_tail = N - 1 /\ rb.d_size = 0)
    /\ (rb_size(rb) >= 1) =>
           /\ rb.d_tail = (rb_size(rb) - 1 + rb.d_head) % BUFFER_SIZE
           /\ rb_back(rb) = rb_index(rb, rb_size(rb) - 1)
           /\ rb_back(rb) = fifo[Len(fifo)]
    /\ (rb_size(rb) = 1) =>
           (rb.d_head = rb.d_tail /\ rb_front(rb) = rb_back(rb))

\* C36 witness: a buffer of four slots holding one element after it was
\* overfilled and popped down, head and tail both at a slot other than 0.
C36_Witness ==
    /\ N = 4
    /\ pushes > N
    /\ rlast.op = "pop_front"
    /\ rb_size(rb) = 1
    /\ rb.d_head = rb.d_tail
    /\ rb.d_head # 0
    /\ rb.d_tail = (rb.d_head + rb.d_size + N - 1) % N

\* the forms of assign
AssignCalls == {"assign(n,val)", "assign(il)", "assign(first,last)"}

\* C37: range insert reallocates only if size() + k would exceed capacity(),
\* and assign only if the new element count would exceed capacity(): whenever
\* the resulting size is <= capacity(), equality included, capacity() is
\* unchanged by the call.
C37_GrowsOnlyWhenNeeded ==
    /\ (/\ Observed({"insert(first,last)"})
        /\ size(vpre[vlast.v]) + vlast.n <= capacity(vpre[vlast.v]))
           => capacity(vec[vlast.v]) = capacity(vpre[vlast.v])
    /\ (/\ Observed(AssignCalls)
        /\ vlast.n <= capacity(vpre[vlast.v]))
           => capacity(vec[vlast.v]) = capacity(vpre[vlast.v])

\* C38: for every vector state and every insertion index idx in [0, size()],
\* idx == 0 into a non-empty vector and insertion into an empty vector
\* included, the shift loop of insert ends after exactly size() - idx + 1
\* slot copies: the wrapped source index starts no further iteration.
C38_ShiftLoopTerminates ==
    (/\ Observed({"insert", "insert(first,last)"})
     /\ vlast.idx \in 0..size(vpre[vlast.v]))
        => /\ shift_array_copies(vpre[vlast.v],
                                 IF vlast.op = "insert" THEN 1 ELSE vlast.n,
                                 vlast.idx)
                = size(vpre[vlast.v]) - vlast.idx + 1
           /\ size(vec[vlast.v]) =
                  size(vpre[vlast.v])
                      + (IF vlast.op = "insert" THEN 1 ELSE vlast.n)

\* C38 witness: insert at index 0 of a non-empty vector, two copies made.
C38_Witness ==
    /\ Observed({"insert"})
    /\ vlast.idx = 0
    /\ size(vpre[vlast.v]) = 1
    /\ shift_array_copies(vpre[vlast.v], 1, 0) = 2
    /\ size(vec[vlast.v]) = 2

\* the iterators of b that denote an element: begin() + k and rbegin() + k
\* for k < size()
ElementIterators(b) ==
    {rb_it_advance(rb_begin(b), k) : k \in 0..(b.d_size - 1)}
        \cup {rb_it_advance(rb_rbegin(b), k) : k \in 0..(b.d_size - 1)}

\* C39: whenever two iterators of the same direction over the same buffer
\* compare equal, they dereference to the same physical slot, for forward and
\* for reverse iterators, also when one was obtained before and one after a
\* push_back or pop_front.
C39_IteratorEqualitySound ==
    \A it, other \in ElementIterators(rpre) \cup ElementIterators(rb) :
        (it.reverse = other.reverse /\ rb_it_eq(it, other))
            => rb_it_slot(it) = rb_it_slot(other)

====
